---- MODULE Spec2Model ----
(***************************************************************************)
(* Model of hari_client/upload/hari_uploader.py: the HARIUploader upload   *)
(* pipeline (add_media, upload, _upload_media_batch,                       *)
(* _upload_media_objects_in_batches, _update_hari_media_object_media_ids,  *)
(* _set_bulk_operation_annotatable_id) and the pure function               *)
(* _merge_bulk_responses.                                                  *)
(*                                                                         *)
(* Python values are encoded as follows.  Strings that the code only       *)
(* compares and tests for truthiness (correlation tokens, server ids) are  *)
(* integers: EmptyStr is "", NoneVal is None, and every positive integer   *)
(* is a distinct non-empty string.  HARIMedia instances live in `heap`     *)
(* and are named by their index (a reference): the uploader's list holds   *)
(* references, and what upload() writes into an instance is seen by the    *)
(* caller.  A HARIMediaObject is named by the pair <<media reference,      *)
(* position in media.media_objects>>.                                      *)
(*                                                                         *)
(* Spec is the uploader driven by a caller (add_media, upload) against the *)
(* service.  SpecMerge, SpecSetId, SpecNew and SpecAdd run                 *)
(* _merge_bulk_responses, _set_bulk_operation_annotatable_id, the entity   *)
(* constructors and add_media on their own, over all inputs within the     *)
(* bounds.  SpecSubsets is upload() of an uploader with object categories, *)
(* up to its first media batch.  SpecLive is upload() on every pending     *)
(* list within the bounds, with weak fairness on the batch steps: the      *)
(* calls of the service client return.                                     *)
(***************************************************************************)
EXTENDS Integers, Sequences, FiniteSets, TLC

\* ------------------------------------------------------------------ bounds
MaxMedias == 3      \* medias handed to add_media over the life of an uploader
MaxObjs == 2        \* media objects on all the medias of one uploader
MaxLimit == 2       \* HARIClient.BULK_UPLOAD_LIMIT ranges over 1..MaxLimit
MaxUploads == 2     \* upload() calls on one uploader
MaxFaults == 1      \* items the service fails, drops or reports twice, in all
MaxArgs == 3        \* arguments of one _merge_bulk_responses call
MaxCount == 1       \* results in one argument of a _merge_bulk_responses call
MaxSetCalls == 3    \* _set_bulk_operation_annotatable_id calls on their own
MaxPreset == 2      \* distinct tokens items may carry before those calls
MaxNew == 2         \* HARIMedia(...) / HARIMediaObject(...) calls of the caller
MaxAdd == 2         \* medias passed to one add_media call
MaxBackRefs == 1    \* distinct non-empty back_reference values of the caller
MaxCategories == 2  \* object category names a caller may declare

\* ---------------------------------------------------------- python values
NoneVal == -1
EmptyStr == 0

\* bool(v) of a str | None value
Truthy(v) == v # NoneVal /\ v # EmptyStr

\* models.BulkOperationStatusEnum members, by value
SUCCESS == "success"
PARTIAL_SUCCESS == "partial_success"
FAILURE == "failure"
BulkOperationStatusEnum == {SUCCESS, PARTIAL_SUCCESS, FAILURE}

\* bool(member) of a str-mixin enum member: that of its string value
EnumTruthy(member) == member # ""

\* models.BulkResponse(): no results, zero counts; the status is set by every
\* path that returns a fresh instance
BulkResponse ==
    [status |-> "processing", results |-> << >>,
     summary |-> [total |-> 0, successful |-> 0, failed |-> 0]]

\* --------------------------------------------------- _merge_bulk_responses
RECURSIVE ExtendResultsFront(_, _)
\* ExtendResults with each response's results put in front of the list
ExtendResultsFront(args, n) ==
    IF n = 0 THEN << >>
    ELSE args[n].results \o ExtendResultsFront(args, n - 1)

RECURSIVE ExtendResults(_, _)
\* final_response.results after the loop has run over args[1..n]
ExtendResults(args, n) ==
    IF n = 0 THEN BulkResponse.results
    ELSE ExtendResults(args, n - 1) \o args[n].results

RECURSIVE SumSummary(_, _)
\* final_response.summary after the loop has run over args[1..n]
SumSummary(args, n) ==
    IF n = 0 THEN BulkResponse.summary
    ELSE LET s == SumSummary(args, n - 1)
         IN  [total |-> s.total + args[n].summary.total,
              successful |-> s.successful + args[n].summary.successful,
              failed |-> s.failed + args[n].summary.failed]

\* the set `statuses` after the loop
Statuses(args) == {args[i].status : i \in 1..Len(args)}

\* RollupStatus without its first branch (`if len(statuses) == 1`)
RollupStatusNoSingle(statuses) ==
    IF EnumTruthy(SUCCESS) \/ PARTIAL_SUCCESS \in statuses
    THEN PARTIAL_SUCCESS
    ELSE FAILURE

\* the if / elif / else over `statuses`; `SUCCESS or PARTIAL_SUCCESS in statuses`
\* parses as `SUCCESS or (PARTIAL_SUCCESS in statuses)`
RollupStatus(statuses) ==
    IF Cardinality(statuses) = 1
    THEN CHOOSE s \in statuses : TRUE
    ELSE IF EnumTruthy(SUCCESS) \/ PARTIAL_SUCCESS \in statuses
         THEN PARTIAL_SUCCESS
         ELSE FAILURE

\* _merge_bulk_responses without `if len(args) == 0`
MergeNoEmptyCase(args) ==
    IF Len(args) = 1
    THEN args[1]
    ELSE [status |-> RollupStatus(Statuses(args)),
          results |-> ExtendResults(args, Len(args)),
          summary |-> SumSummary(args, Len(args))]

\* _merge_bulk_responses returning final_response, not args[0], for one argument
MergeOneIntoFresh(args) ==
    IF Len(args) = 0
    THEN [BulkResponse EXCEPT !.status = SUCCESS]
    ELSE IF Len(args) = 1
         THEN BulkResponse
         ELSE [status |-> RollupStatus(Statuses(args)),
               results |-> ExtendResults(args, Len(args)),
               summary |-> SumSummary(args, Len(args))]

_merge_bulk_responses(args) ==
    IF Len(args) = 0
    THEN [BulkResponse EXCEPT !.status = SUCCESS]
    ELSE IF Len(args) = 1
         THEN args[1]
         ELSE [status |-> RollupStatus(Statuses(args)),
               results |-> ExtendResults(args, Len(args)),
               summary |-> SumSummary(args, Len(args))]

\* final_response that is the first argument when there are two or more
final_response_is_first_argument(h, args) ==
    IF Len(args) >= 2
    THEN [heap |-> h, at |-> args[1]]
    ELSE [heap |-> Append(h, BulkResponse), at |-> Len(h) + 1]

\* final_response = models.BulkResponse(): a new object, at an address that
\* none of the objects of h has
final_response(h, args) == [heap |-> Append(h, BulkResponse), at |-> Len(h) + 1]

RECURSIVE MergeLoop(_, _, _, _)
\* the loop over args[i..], args being addresses into h and f the address
\* of final_response: f's results are extended and f's counts are added to,
\* in place; each response is read as it is when its turn comes
MergeLoop(h, f, args, i) ==
    IF i > Len(args) THEN h
    ELSE LET response == h[args[i]]
         IN  MergeLoop(
                 [h EXCEPT ![f].results = @ \o response.results,
                           ![f].summary.total = @ + response.summary.total,
                           ![f].summary.successful = @ + response.summary.successful,
                           ![f].summary.failed = @ + response.summary.failed],
                 f, args, i + 1)

\* _merge_bulk_responses(*args) on objects: args are addresses into h; gives
\* the objects after the call and the address of the object returned
_merge_bulk_responses_by_reference(h, args) ==
    LET new == final_response(h, args)
        f == new.at
    IN  IF Len(args) = 0
        THEN [heap |-> [new.heap EXCEPT ![f].status = SUCCESS], ret |-> f]
        ELSE IF Len(args) = 1
             THEN [heap |-> new.heap, ret |-> args[1]]
             ELSE LET merged == MergeLoop(new.heap, f, args, 1)
                      statuses == {merged[args[i]].status : i \in 1..Len(args)}
                  IN  [heap |-> [merged EXCEPT ![f].status = RollupStatus(statuses)],
                       ret |-> f]

\* ------------------------------------------------------------ entity model
\* HARIMediaObject(...) as the caller may construct it: field_must_not_be_set
\* rejects a truthy media_id or bulk_operation_annotatable_id, the defaults are
\* "" and None
HARIMediaObject == [media_id |-> EmptyStr, bulk_operation_annotatable_id |-> NoneVal]

\* HARIMedia(...) as the caller may construct it, after add_media_object was
\* called n times: media_objects holds n objects, the token is the default ""
HARIMedia(n) ==
    [media_objects |-> [j \in 1..n |-> HARIMediaObject],
     bulk_operation_annotatable_id |-> EmptyStr]

\* HARIMedia(back_reference=..) after add_media_object was called with a
\* HARIMediaObject(back_reference=obrs[j]) for each j, in this order
MediaWith(back_reference, obrs) ==
    [media_objects |->
         [j \in 1..Len(obrs) |->
             [media_id |-> HARIMediaObject.media_id,
              bulk_operation_annotatable_id |->
                  HARIMediaObject.bulk_operation_annotatable_id,
              back_reference |-> obrs[j]]],
     bulk_operation_annotatable_id |-> HARIMedia(0).bulk_operation_annotatable_id,
     back_reference |-> back_reference]

\* a keyword argument the caller does not pass
Absent == -2

\* field_must_not_be_set that only warns, as empty_back_reference does
FieldOnlyWarned(v) == FALSE

\* field_must_not_be_set(cls, v): TRUE when it raises ValueError.  pydantic
\* runs a field validator on a value the caller passes, not on the default.
field_must_not_be_set(v) == Truthy(v)

NoEntity == [kind |-> "none"]

\* HARIMediaObject(media_id=.., bulk_operation_annotatable_id=..): whether the
\* construction raised, and the instance it gave.  media_id is a `str` field:
\* None is refused as a value of the wrong type.
NewHARIMediaObject(media_id, token) ==
    IF \/ media_id # Absent /\ (media_id = NoneVal \/ field_must_not_be_set(media_id))
       \/ token # Absent /\ field_must_not_be_set(token)
    THEN [raised |-> TRUE, entity |-> NoEntity]
    ELSE [raised |-> FALSE,
          entity |-> [kind |-> "HARIMediaObject",
                      media_id |-> IF media_id = Absent
                                   THEN HARIMediaObject.media_id ELSE media_id,
                      bulk_operation_annotatable_id |->
                          IF token = Absent
                          THEN HARIMediaObject.bulk_operation_annotatable_id
                          ELSE token]]

\* HARIMedia(bulk_operation_annotatable_id=..)
NewHARIMedia(token) ==
    IF token # Absent /\ field_must_not_be_set(token)
    THEN [raised |-> TRUE, entity |-> NoEntity]
    ELSE [raised |-> FALSE,
          entity |-> [kind |-> "HARIMedia",
                      media_objects |-> HARIMedia(0).media_objects,
                      bulk_operation_annotatable_id |->
                          IF token = Absent
                          THEN HARIMedia(0).bulk_operation_annotatable_id
                          ELSE token]]

\* ------------------------------------------------------ the remote service
\* One outcome of a batch response (models.AnnotatableCreateResponse): the
\* server id is present on success only.
Outcome(token, ok, id) ==
    [status |-> IF ok THEN "success" ELSE "failure",
     item_id |-> IF ok THEN id ELSE NoneVal,
     bulk_operation_annotatable_id |-> token]

\* What the service may do to the list of outcomes: answer faithfully, drop
\* the outcome of one item, or report one item twice.
NoFault == [kind |-> "none", at |-> 0]
Faults(n) == {NoFault} \cup {[kind |-> k, at |-> i] : k \in {"drop", "dup"}, i \in 1..n}

ApplyFault(outcomes, fault) ==
    IF fault.kind = "drop"
    THEN SubSeq(outcomes, 1, fault.at - 1) \o SubSeq(outcomes, fault.at + 1, Len(outcomes))
    ELSE IF fault.kind = "dup"
         THEN SubSeq(outcomes, 1, fault.at) \o SubSeq(outcomes, fault.at, Len(outcomes))
         ELSE outcomes

\* number of i in 1..n with oks[i]
RECURSIVE CountOk(_, _)
CountOk(oks, n) ==
    IF n = 0 THEN 0 ELSE CountOk(oks, n - 1) + (IF oks[n] THEN 1 ELSE 0)

\* how much of the service's budget of misbehaviour (MaxFaults) a response uses
Cost(oks, fault) ==
    (Len(oks) - CountOk(oks, Len(oks))) + (IF fault = NoFault THEN 0 ELSE 1)

\* The BatchResult of one create_medias / create_media_objects call on items
\* carrying `tokens`: oks[i] tells whether item i was created, ids are handed
\* out from base + 1 on.
ServerResponse(tokens, oks, fault, base) ==
    LET n == Len(tokens)
        good == CountOk(oks, n)
    IN  [status |-> IF good = n THEN SUCCESS
                    ELSE IF good = 0 THEN FAILURE ELSE PARTIAL_SUCCESS,
         results |-> ApplyFault([i \in 1..n |-> Outcome(tokens[i], oks[i], base + i)], fault),
         summary |-> [total |-> n, successful |-> good, failed |-> n - good]]

\* -------------------------------------------------------------------- state
VARIABLES
    BULK_UPLOAD_LIMIT,              \* HARIClient.BULK_UPLOAD_LIMIT
    heap,                           \* the HARIMedia instances the caller has built
    _medias,                        \* HARIUploader._medias: references into heap
    _media_object_cnt,              \* HARIUploader._media_object_cnt
    pc,                             \* where the caller / upload() stands
    idx,                            \* upload(): the loop variable idx
    media_upload_response,          \* _upload_media_batch: the create_medias response
    jdx,                            \* _upload_media_objects_in_batches: its idx
    batch_media_object_responses,   \* _upload_media_objects_in_batches: its list
    media_upload_responses,         \* upload(): media_upload_responses
    media_object_upload_responses,  \* upload(): media_object_upload_responses
    progress,                       \* progressbar: [n, total]
    result,                         \* what upload() returned
    error,                          \* the HARIMediaUploadError upload() raised
    calls,                          \* the service calls of the current upload():
                                    \* what was sent and what was answered
    resolved,                       \* media batches of this upload() resolved so far
    uuidCnt,                        \* uuid.uuid4() values drawn so far
    serverCnt,                      \* ids the service has handed out so far
    uploads,                        \* upload() calls so far
    faults,                         \* items the service has failed, dropped or doubled
    mergeArgs,                      \* a _merge_bulk_responses call: its arguments
    mergeResult,                    \* ... what it returned
    mergePc,                        \* ... and whether it has: "ready" or "done"
    mergeObjects,                   \* the BulkResponse objects by address: the
                                    \* arguments at 1..n, then what the call made
    mergeReturned,                  \* the address of the object returned, 0: none
    constructed,                    \* the entity constructions the caller has tried
    _media_back_references,         \* HARIUploader._media_back_references
    _media_object_back_references,  \* HARIUploader._media_object_back_references
    warnings,                       \* the log.warning calls of add_media
    callerBackRefs,                 \* the back_reference values the caller uses
    object_categories,              \* HARIUploader.object_categories
    _object_category_subsets,       \* HARIUploader._object_category_subsets
    subsets                         \* the subsets of the dataset, on the service

uploadVars ==
    <<BULK_UPLOAD_LIMIT, heap, _medias, _media_object_cnt, pc, idx,
      media_upload_response, jdx, batch_media_object_responses,
      media_upload_responses, media_object_upload_responses, progress, result,
      error, calls, resolved, uuidCnt, serverCnt, uploads, faults,
      _media_back_references, _media_object_back_references, warnings>>

backRefVars == <<_media_back_references, _media_object_back_references, warnings>>

mergeVars == <<mergeArgs, mergeResult, mergePc, mergeObjects, mergeReturned>>

subsetVars == <<object_categories, _object_category_subsets, subsets>>

vars == <<uploadVars, mergeVars, constructed, callerBackRefs, subsetVars>>

\* ------------------------------------------------------------------ helpers
Min(a, b) == IF a < b THEN a ELSE b

\* Slice with its end taken as inclusive: seq[lo : lo + n + 1]
SliceInclusive(seq, lo, n) == SubSeq(seq, lo + 1, Min(lo + n + 1, Len(seq)))

\* the python slice seq[lo : lo + n] of a list, lo >= 0
Slice(seq, lo, n) == SubSeq(seq, lo + 1, Min(lo + n, Len(seq)))

\* Range with the end included: range(0, n + 1, step)
RangeInclusive(n, step) == {i \in 0..n : i % step = 0}

\* the values range(0, n, step) runs over
Range(n, step) == {i \in 0..n : i < n /\ i % step = 0}

\* medias_to_upload cut one short: self._medias[idx : idx + LIMIT - 1]
medias_to_upload_short == SubSeq(_medias, idx + 1, Min(idx + BULK_UPLOAD_LIMIT - 1, Len(_medias)))

\* upload(): medias_to_upload for the current idx
medias_to_upload == Slice(_medias, idx, BULK_UPLOAD_LIMIT)

RECURSIVE Flatten(_, _, _)
\* _upload_media_batch: all_media_objects after the loop over batch[1..n];
\* a media object is named <<media reference, position>>
Flatten(h, batch, n) ==
    IF n = 0 THEN << >>
    ELSE Flatten(h, batch, n - 1)
         \o [j \in 1..Len(h[batch[n]].media_objects) |-> <<batch[n], j>>]

\* all_media_objects gathered from the whole pending list, not from the batch
all_media_objects_of_pending == Flatten(heap, _medias, Len(_medias))

all_media_objects == Flatten(heap, medias_to_upload, Len(medias_to_upload))

\* media_objects_to_upload without the slice: the whole list every time
media_objects_unsliced == all_media_objects

\* _upload_media_objects_in_batches: media_objects_to_upload for the current jdx
media_objects_to_upload == Slice(all_media_objects, jdx, BULK_UPLOAD_LIMIT)

\* _set_bulk_operation_annotatable_id testing `is None` instead of falsiness
SetIdWhenNone(token, fresh) == IF token = NoneVal THEN fresh ELSE token

\* _set_bulk_operation_annotatable_id without its `if not ...` test
SetIdUnconditionally(token, fresh) == fresh

\* _set_bulk_operation_annotatable_id(item): the item's token afterwards, when
\* uuid.uuid4() would return `fresh`
_set_bulk_operation_annotatable_id(token, fresh) ==
    IF ~Truthy(token) THEN fresh ELSE token

RECURSIVE SetMediaIdsOneUuid(_, _, _, _)
\* SetMediaIds with uuid.uuid4() drawn once for the batch, not once per media
SetMediaIdsOneUuid(h, cnt, batch, i) ==
    IF i > Len(batch) THEN [heap |-> h, cnt |-> cnt + 1]
    ELSE LET m == batch[i]
             old == h[m].bulk_operation_annotatable_id
             new == _set_bulk_operation_annotatable_id(old, cnt + 1)
         IN  SetMediaIdsOneUuid([h EXCEPT ![m].bulk_operation_annotatable_id = new],
                                cnt, batch, i + 1)

RECURSIVE SetMediaIds(_, _, _, _)
\* _upload_media_batch, its first loop over batch[i..]: the heap and the uuid
\* counter afterwards
SetMediaIds(h, cnt, batch, i) ==
    IF i > Len(batch) THEN [heap |-> h, cnt |-> cnt]
    ELSE LET m == batch[i]
             old == h[m].bulk_operation_annotatable_id
             new == _set_bulk_operation_annotatable_id(old, cnt + 1)
         IN  SetMediaIds([h EXCEPT ![m].bulk_operation_annotatable_id = new],
                         IF new = old THEN cnt ELSE cnt + 1, batch, i + 1)

RECURSIVE SetObjectIds(_, _, _, _)
\* _upload_media_object_batch, its loop over objs[i..]
SetObjectIds(h, cnt, objs, i) ==
    IF i > Len(objs) THEN [heap |-> h, cnt |-> cnt]
    ELSE LET m == objs[i][1]
             j == objs[i][2]
             old == h[m].media_objects[j].bulk_operation_annotatable_id
             new == _set_bulk_operation_annotatable_id(old, cnt + 1)
         IN  SetObjectIds(
                 [h EXCEPT ![m].media_objects[j].bulk_operation_annotatable_id = new],
                 IF new = old THEN cnt ELSE cnt + 1, objs, i + 1)

\* _update_hari_media_object_media_ids: filtered_upload_response for a token
Filtered(response, token) ==
    SelectSeq(response.results, LAMBDA x : x.bulk_operation_annotatable_id = token)

RECURSIVE UpdateNoDuplicateCheck(_, _, _, _)
\* _update_hari_media_object_media_ids without its `elif len(...) > 1` branch
UpdateNoDuplicateCheck(h, batch, response, i) ==
    IF i > Len(batch) THEN [heap |-> h, error |-> "", done |-> i - 1]
    ELSE LET m == batch[i]
             filtered == SelectSeq(response.results,
                 LAMBDA x : x.bulk_operation_annotatable_id
                                = h[m].bulk_operation_annotatable_id)
         IN  IF Len(filtered) = 0
             THEN [heap |-> h, error |-> "Couldn't find", done |-> i - 1]
             ELSE UpdateNoDuplicateCheck(
                      [h EXCEPT ![m].media_objects =
                          [j \in 1..Len(h[m].media_objects) |->
                              [h[m].media_objects[j] EXCEPT
                                  !.media_id = filtered[1].item_id]]],
                      batch, response, i + 1)

RECURSIVE UpdateSkipMissing(_, _, _, _)
\* _update_hari_media_object_media_ids going on to the next media, instead of
\* raising, when no outcome carries the media's token
UpdateSkipMissing(h, batch, response, i) ==
    IF i > Len(batch) THEN [heap |-> h, error |-> "", done |-> i - 1]
    ELSE LET m == batch[i]
             filtered == SelectSeq(response.results,
                 LAMBDA x : x.bulk_operation_annotatable_id
                                = h[m].bulk_operation_annotatable_id)
         IN  IF Len(filtered) = 0
             THEN UpdateSkipMissing(h, batch, response, i + 1)
             ELSE IF Len(filtered) > 1
                  THEN [heap |-> h, error |-> "contains multiple items", done |-> i - 1]
                  ELSE UpdateSkipMissing(
                           [h EXCEPT ![m].media_objects =
                               [j \in 1..Len(h[m].media_objects) |->
                                   [h[m].media_objects[j] EXCEPT
                                       !.media_id = filtered[1].item_id]]],
                           batch, response, i + 1)

RECURSIVE UpdateRaisesAfterLoop(_, _, _, _)
\* _update_hari_media_object_media_ids noting the first error and raising it
\* only after the loop has gone over the whole batch
UpdateRaisesAfterLoop(h, batch, response, i) ==
    IF i > Len(batch) THEN [heap |-> h, error |-> "", done |-> i - 1]
    ELSE LET m == batch[i]
             filtered == SelectSeq(response.results,
                 LAMBDA x : x.bulk_operation_annotatable_id
                                = h[m].bulk_operation_annotatable_id)
         IN  IF Len(filtered) # 1
             THEN [UpdateRaisesAfterLoop(h, batch, response, i + 1) EXCEPT
                      !.error = IF Len(filtered) = 0 THEN "Couldn't find"
                                ELSE "contains multiple items"]
             ELSE UpdateRaisesAfterLoop(
                      [h EXCEPT ![m].media_objects =
                          [j \in 1..Len(h[m].media_objects) |->
                              [h[m].media_objects[j] EXCEPT
                                  !.media_id = filtered[1].item_id]]],
                      batch, response, i + 1)

RECURSIVE _update_hari_media_object_media_ids(_, _, _, _)
\* the loop over batch[i..]: the heap afterwards, the error raised ("" for
\* none) and the medias whose objects were given their media_id
_update_hari_media_object_media_ids(h, batch, response, i) ==
    IF i > Len(batch) THEN [heap |-> h, error |-> "", done |-> i - 1]
    ELSE LET m == batch[i]
             filtered == Filtered(response, h[m].bulk_operation_annotatable_id)
         IN  IF Len(filtered) = 0
             THEN [heap |-> h, error |-> "Couldn't find", done |-> i - 1]
             ELSE IF Len(filtered) > 1
                  THEN [heap |-> h, error |-> "contains multiple items", done |-> i - 1]
                  ELSE _update_hari_media_object_media_ids(
                           [h EXCEPT ![m].media_objects =
                               [j \in 1..Len(h[m].media_objects) |->
                                   [h[m].media_objects[j] EXCEPT
                                       !.media_id = filtered[1].item_id]]],
                           batch, response, i + 1)

\* the result of upload(): None, or HARIUploadResults(medias, media_objects)
NoResult == [kind |-> "unset", medias |-> BulkResponse, media_objects |-> BulkResponse]
NoneResult == [NoResult EXCEPT !.kind = "None"]
HARIUploadResults(medias, media_objects) ==
    [kind |-> "HARIUploadResults", medias |-> medias, media_objects |-> media_objects]

\* --------------------------------------------------------------------- Init
\* a category -> subset id mapping without entries
EmptyMap == [c \in {} |-> NoneVal]

\* an uploader built without object_categories, on a dataset without subsets
NoCategories ==
    /\ object_categories = {}
    /\ _object_category_subsets = EmptyMap
    /\ subsets = {}

\* HARIUploader.__init__: an uploader that holds nothing; no upload() running
InitUpload ==
    /\ BULK_UPLOAD_LIMIT \in 1..MaxLimit
    /\ heap = << >>
    /\ _medias = << >>
    /\ _media_object_cnt = 0
    /\ pc = "idle"
    /\ idx = 0
    /\ media_upload_response = BulkResponse
    /\ jdx = 0
    /\ batch_media_object_responses = << >>
    /\ media_upload_responses = << >>
    /\ media_object_upload_responses = << >>
    /\ progress = [n |-> 0, total |-> 0]
    /\ result = NoResult
    /\ error = ""
    /\ calls = << >>
    /\ resolved = {}
    /\ uuidCnt = 0
    /\ serverCnt = 0
    /\ uploads = 0
    /\ faults = 0
    /\ _media_back_references = {}
    /\ _media_object_back_references = {}
    /\ warnings = << >>

Init ==
    /\ InitUpload
    /\ mergeArgs = << >>
    /\ mergeResult = BulkResponse
    /\ mergePc = "done"
    /\ mergeObjects = << >>
    /\ mergeReturned = 0
    /\ constructed = << >>
    /\ callerBackRefs = {EmptyStr}
    /\ NoCategories

\* the caller holds control: no upload() call is running
CallerHasControl == pc \in {"idle", "returned", "raised"}

\* ------------------------------------------------------------------ actions
\* no upload() call is running, or one is starting: its local variables, and
\* those of the functions it calls, do not exist or hold their first values
LocalsGone ==
    /\ idx' = 0
    /\ jdx' = 0
    /\ media_upload_response' = BulkResponse
    /\ batch_media_object_responses' = << >>
    /\ media_upload_responses' = << >>
    /\ media_object_upload_responses' = << >>

\* the medias a caller may build whose media objects are at most `budget`
NewMedias(budget) ==
    {MediaWith(br, obrs) :
        br \in callerBackRefs,
        obrs \in UNION {[1..n -> callerBackRefs] : n \in 0..budget}}

RECURSIVE CountObjects(_, _)
\* the media objects of medias[1..n]
CountObjects(medias, n) ==
    IF n = 0 THEN 0
    ELSE CountObjects(medias, n - 1) + Len(medias[n].media_objects)

RECURSIVE AddMediaObjects(_, _, _)
\* add_media, the inner loop over media.media_objects[j..]: a warning for a
\* back_reference seen before, else the back_reference is remembered; the
\* counter goes up by one
AddMediaObjects(u, objs, j) ==
    IF j > Len(objs) THEN u
    ELSE LET br == objs[j].back_reference
         IN  AddMediaObjects(
                 IF br \in u._media_object_back_references
                 THEN [u EXCEPT !.warnings = Append(@, [about |-> "media_object",
                                                        back_reference |-> br]),
                                !._media_object_cnt = @ + 1]
                 ELSE [u EXCEPT !._media_object_back_references = @ \cup {br},
                                !._media_object_cnt = @ + 1],
                 objs, j + 1)

RECURSIVE AddMediasSkippingSeen(_, _, _, _)
\* AddMedias leaving out, after the warning, a media whose back_reference was
\* seen before
AddMediasSkippingSeen(h, u, args, i) ==
    IF i > Len(args) THEN u
    ELSE LET media == h[args[i]]
             br == media.back_reference
         IN  IF br \in u._media_back_references
             THEN AddMediasSkippingSeen(h,
                      [u EXCEPT !.warnings = Append(@, [about |-> "media",
                                                        back_reference |-> br])],
                      args, i + 1)
             ELSE AddMediasSkippingSeen(h,
                      AddMediaObjects(
                          [u EXCEPT !._media_back_references = @ \cup {br},
                                    !._medias = Append(@, args[i])],
                          media.media_objects, 1),
                      args, i + 1)

RECURSIVE AddMedias(_, _, _, _)
\* add_media, the loop over args[i..], args being references into heap h:
\* u holds the uploader's fields and the warnings logged
AddMedias(h, u, args, i) ==
    IF i > Len(args) THEN u
    ELSE LET media == h[args[i]]
             br == media.back_reference
             checked == IF br \in u._media_back_references
                        THEN [u EXCEPT !.warnings = Append(@, [about |-> "media",
                                                               back_reference |-> br])]
                        ELSE [u EXCEPT !._media_back_references = @ \cup {br}]
             appended == [checked EXCEPT !._medias = Append(@, args[i])]
         IN  AddMedias(h, AddMediaObjects(appended, media.media_objects, 1),
                       args, i + 1)

\* HARIUploader.add_media(m1, .., mk) for medias the caller has just built, in
\* the order they were built.  What the previous upload() call returned,
\* reported and sent is no longer looked at once the caller goes on to add
\* medias.
add_media ==
    /\ CallerHasControl
    /\ \E k \in 1..Min(MaxAdd, MaxMedias - Len(_medias)) :
       \E medias \in [1..k -> NewMedias(MaxObjs - _media_object_cnt)] :
           LET args == [i \in 1..k |-> Len(heap) + i]
               u == AddMedias(heap \o medias,
                        [_medias |-> _medias,
                         _media_back_references |-> _media_back_references,
                         _media_object_back_references |-> _media_object_back_references,
                         _media_object_cnt |-> _media_object_cnt,
                         warnings |-> warnings],
                        args, 1)
           IN  /\ _media_object_cnt + CountObjects(medias, k) <= MaxObjs
               /\ heap' = heap \o medias
               /\ _medias' = u._medias
               /\ _media_back_references' = u._media_back_references
               /\ _media_object_back_references' = u._media_object_back_references
               /\ _media_object_cnt' = u._media_object_cnt
               /\ warnings' = u.warnings
    /\ pc' = "idle"
    /\ result' = NoResult
    /\ error' = ""
    /\ calls' = << >>
    /\ resolved' = {}
    /\ progress' = [n |-> 0, total |-> 0]
    /\ LocalsGone
    /\ UNCHANGED <<BULK_UPLOAD_LIMIT, uuidCnt, serverCnt, uploads, faults,
                   mergeVars, constructed, callerBackRefs, subsetVars>>

\* upload() without its `if len(self._medias) == 0` return: with nothing
\* pending the loop body never runs and the merge of no responses is returned
upload_without_empty_check ==
    /\ CallerHasControl
    /\ uploads < MaxUploads
    /\ uploads' = uploads + 1
    /\ calls' = << >>
    /\ resolved' = {}
    /\ error' = ""
    /\ IF Len(_medias) = 0
       THEN /\ result' = HARIUploadResults(_merge_bulk_responses(<< >>),
                                           _merge_bulk_responses(<< >>))
            /\ pc' = "returned"
            /\ UNCHANGED progress
       ELSE /\ result' = NoResult
            /\ pc' = "create_medias"
            /\ progress' = [n |-> 0, total |-> Len(_medias)]
    /\ LocalsGone
    /\ UNCHANGED <<BULK_UPLOAD_LIMIT, heap, _medias, _media_object_cnt,
                   uuidCnt, serverCnt, faults, mergeVars, constructed,
                   backRefVars, callerBackRefs, subsetVars>>

RECURSIVE Reversed(_)
Reversed(seq) == IF seq = << >> THEN << >> ELSE Append(Reversed(Tail(seq)), Head(seq))

\* upload() that turns the pending list round before it walks it
upload_reversing_the_list ==
    /\ CallerHasControl
    /\ uploads < MaxUploads
    /\ uploads' = uploads + 1
    /\ calls' = << >>
    /\ resolved' = {}
    /\ error' = ""
    /\ _medias' = Reversed(_medias)
    /\ IF Len(_medias) = 0
       THEN /\ result' = NoneResult
            /\ pc' = "returned"
            /\ UNCHANGED progress
       ELSE /\ result' = NoResult
            /\ pc' = "create_medias"
            /\ progress' = [n |-> 0, total |-> Len(_medias)]
    /\ LocalsGone
    /\ UNCHANGED <<BULK_UPLOAD_LIMIT, heap, _media_object_cnt,
                   uuidCnt, serverCnt, faults, mergeVars, constructed,
                   backRefVars, callerBackRefs, subsetVars>>

\* HARIUploader.upload(), up to the first loop iteration: the early return of
\* None, or the set-up of the response lists and the progress bar
upload ==
    /\ CallerHasControl
    /\ uploads < MaxUploads
    /\ uploads' = uploads + 1
    /\ calls' = << >>
    /\ resolved' = {}
    /\ error' = ""
    /\ IF Len(_medias) = 0
       THEN /\ result' = NoneResult
            /\ pc' = "returned"
            /\ UNCHANGED progress
       ELSE /\ result' = NoResult
            /\ pc' = "create_medias"
            /\ progress' = [n |-> 0, total |-> Len(_medias)]
    /\ LocalsGone
    /\ UNCHANGED <<BULK_UPLOAD_LIMIT, heap, _medias, _media_object_cnt,
                   uuidCnt, serverCnt, faults, mergeVars, constructed,
                   backRefVars, callerBackRefs, subsetVars>>

\* FinishBatch keeping only the responses of batches that did not fail
FinishBatchDropFailed(mresp, oresps) ==
    LET murs == IF mresp.status = FAILURE THEN media_upload_responses
                ELSE Append(media_upload_responses, mresp)
        mours == media_object_upload_responses
                 \o SelectSeq(oresps, LAMBDA r : r.status # FAILURE)
        nidx == idx + BULK_UPLOAD_LIMIT
    IN  /\ progress' = [progress EXCEPT !.n = @ + Len(medias_to_upload)]
        /\ IF nidx \in Range(Len(_medias), BULK_UPLOAD_LIMIT)
           THEN /\ pc' = "create_medias"
                /\ idx' = nidx
                /\ media_upload_responses' = murs
                /\ media_object_upload_responses' = mours
                /\ media_upload_response' = BulkResponse
                /\ jdx' = 0
                /\ batch_media_object_responses' = << >>
                /\ UNCHANGED result
           ELSE /\ pc' = "returned"
                /\ result' = HARIUploadResults(_merge_bulk_responses(murs),
                                               _merge_bulk_responses(mours))
                /\ LocalsGone

\* FinishBatch with `media_object_upload_responses = media_object_responses`
\* in place of the extend: only the last media batch's responses are kept
FinishBatchObjectsReplaced(mresp, oresps) ==
    LET murs == Append(media_upload_responses, mresp)
        mours == oresps
        nidx == idx + BULK_UPLOAD_LIMIT
    IN  /\ progress' = [progress EXCEPT !.n = @ + Len(medias_to_upload)]
        /\ IF nidx \in Range(Len(_medias), BULK_UPLOAD_LIMIT)
           THEN /\ pc' = "create_medias"
                /\ idx' = nidx
                /\ media_upload_responses' = murs
                /\ media_object_upload_responses' = mours
                /\ media_upload_response' = BulkResponse
                /\ jdx' = 0
                /\ batch_media_object_responses' = << >>
                /\ UNCHANGED result
           ELSE /\ pc' = "returned"
                /\ result' = HARIUploadResults(_merge_bulk_responses(murs),
                                               _merge_bulk_responses(mours))
                /\ LocalsGone

\* FinishBatch with progressbar.update(1): one unit per batch, not per media
FinishBatchProgressPerBatch(mresp, oresps) ==
    LET murs == Append(media_upload_responses, mresp)
        mours == media_object_upload_responses \o oresps
        nidx == idx + BULK_UPLOAD_LIMIT
    IN  /\ progress' = [progress EXCEPT !.n = @ + 1]
        /\ IF nidx \in Range(Len(_medias), BULK_UPLOAD_LIMIT)
           THEN /\ pc' = "create_medias"
                /\ idx' = nidx
                /\ media_upload_responses' = murs
                /\ media_object_upload_responses' = mours
                /\ media_upload_response' = BulkResponse
                /\ jdx' = 0
                /\ batch_media_object_responses' = << >>
                /\ UNCHANGED result
           ELSE /\ pc' = "returned"
                /\ result' = HARIUploadResults(_merge_bulk_responses(murs),
                                               _merge_bulk_responses(mours))
                /\ LocalsGone

\* upload(), from the return of _upload_media_batch with (mresp, oresps) to
\* the next service call: the progress bar moves by the batch, the responses are
\* kept, and the loop either goes on to the next media batch or ends, in which
\* case the merged results are returned
FinishBatch(mresp, oresps) ==
    LET murs == Append(media_upload_responses, mresp)
        mours == media_object_upload_responses \o oresps
        nidx == idx + BULK_UPLOAD_LIMIT
    IN  /\ progress' = [progress EXCEPT !.n = @ + Len(medias_to_upload)]
        /\ IF nidx \in Range(Len(_medias), BULK_UPLOAD_LIMIT)
           THEN /\ pc' = "create_medias"
                /\ idx' = nidx
                /\ media_upload_responses' = murs
                /\ media_object_upload_responses' = mours
                /\ media_upload_response' = BulkResponse
                /\ jdx' = 0
                /\ batch_media_object_responses' = << >>
                /\ UNCHANGED result
           ELSE /\ pc' = "returned"
                /\ result' = HARIUploadResults(_merge_bulk_responses(murs),
                                               _merge_bulk_responses(mours))
                /\ LocalsGone

\* _upload_media_batch, from the call of client.create_medias to the next
\* service call: the tokens are set, the batch is sent, the service answers,
\* _update_hari_media_object_media_ids either raises HARIMediaUploadError out
\* of upload() (the response and idx are left as they were when it raised) or
\* gives the media objects their media_id; then the batch's media objects are
\* gathered and, when there are none, the batch is finished
_upload_media_batch ==
    /\ pc = "create_medias"
    /\ idx \in Range(Len(_medias), BULK_UPLOAD_LIMIT)
    /\ \E oks \in [1..Len(medias_to_upload) -> BOOLEAN],
          fault \in Faults(Len(medias_to_upload)) :
         LET batch == medias_to_upload
             set == SetMediaIds(heap, uuidCnt, batch, 1)
             tokens == [i \in 1..Len(batch) |->
                           set.heap[batch[i]].bulk_operation_annotatable_id]
             response == ServerResponse(tokens, oks, fault, serverCnt)
             r == _update_hari_media_object_media_ids(set.heap, batch, response, 1)
         IN  /\ faults' = faults + Cost(oks, fault)
             /\ faults' <= MaxFaults
             /\ uuidCnt' = set.cnt
             /\ serverCnt' = serverCnt + Len(batch)
             /\ calls' = Append(calls,
                    [op |-> "create_medias",
                     items |-> [i \in 1..Len(batch) |->
                         [ref |-> batch[i],
                          bulk_operation_annotatable_id |-> tokens[i]]],
                     response |-> response])
             /\ heap' = r.heap
             /\ resolved' = resolved \cup {batch[k] : k \in 1..r.done}
             /\ error' = r.error
             /\ IF r.error # ""
                THEN /\ pc' = "raised"
                     /\ media_upload_response' = response
                     /\ jdx' = 0
                     /\ batch_media_object_responses' = << >>
                     /\ media_upload_responses' = << >>
                     /\ media_object_upload_responses' = << >>
                     /\ UNCHANGED <<idx, progress, result>>
                ELSE IF 0 \in Range(Len(all_media_objects), BULK_UPLOAD_LIMIT)
                     THEN /\ pc' = "create_media_objects"
                          /\ media_upload_response' = response
                          /\ jdx' = 0
                          /\ batch_media_object_responses' = << >>
                          /\ UNCHANGED <<idx, media_upload_responses,
                                         media_object_upload_responses,
                                         progress, result>>
                     ELSE FinishBatch(response, << >>)
    /\ UNCHANGED <<BULK_UPLOAD_LIMIT, _medias, _media_object_cnt, uploads,
                   mergeVars, constructed,
                   backRefVars, callerBackRefs, subsetVars>>

\* _upload_media_objects_in_batches, one loop iteration, up to the next service
\* call: _upload_media_object_batch sets the tokens and sends the slice, the
\* response is appended; after the last slice the media batch is finished
_upload_media_object_batch ==
    /\ pc = "create_media_objects"
    /\ jdx \in Range(Len(all_media_objects), BULK_UPLOAD_LIMIT)
    /\ \E good \in 0..Len(media_objects_to_upload) :
         LET objs == media_objects_to_upload
             set == SetObjectIds(heap, uuidCnt, objs, 1)
             item(i) == set.heap[objs[i][1]].media_objects[objs[i][2]]
             tokens == [i \in 1..Len(objs) |-> item(i).bulk_operation_annotatable_id]
             oks == [i \in 1..Len(objs) |-> i <= good]
             response == ServerResponse(tokens, oks, NoFault, serverCnt)
             resps == Append(batch_media_object_responses, response)
             njdx == jdx + BULK_UPLOAD_LIMIT
         IN  /\ faults' = faults + Cost(oks, NoFault)
             /\ faults' <= MaxFaults
             /\ heap' = set.heap
             /\ uuidCnt' = set.cnt
             /\ serverCnt' = serverCnt + Len(objs)
             /\ calls' = Append(calls,
                    [op |-> "create_media_objects",
                     items |-> [i \in 1..Len(objs) |->
                         [ref |-> objs[i],
                          bulk_operation_annotatable_id |-> tokens[i],
                          media_id |-> item(i).media_id]],
                     response |-> response])
             /\ IF njdx \in Range(Len(all_media_objects), BULK_UPLOAD_LIMIT)
                THEN /\ jdx' = njdx
                     /\ batch_media_object_responses' = resps
                     /\ UNCHANGED <<pc, idx, media_upload_response,
                                    media_upload_responses,
                                    media_object_upload_responses, progress,
                                    result>>
                ELSE FinishBatch(media_upload_response, resps)
    /\ UNCHANGED <<BULK_UPLOAD_LIMIT, _medias, _media_object_cnt, error,
                   resolved, uploads, mergeVars, constructed,
                   backRefVars, callerBackRefs, subsetVars>>

Next ==
    \/ add_media
    \/ upload
    \/ _upload_media_batch
    \/ _upload_media_object_batch

Spec == Init /\ [][Next]_vars

\* ------------------------------------------------ upload() to its end
\* An uploader about to be uploaded: upload() was called once with nothing
\* pending, and the add_media calls since have left any list of up to
\* MaxMedias medias, with up to MaxObjs media objects among them.
InitLive ==
    /\ BULK_UPLOAD_LIMIT \in 1..MaxLimit
    /\ mergeArgs = << >>
    /\ mergeResult = BulkResponse
    /\ mergePc = "done"
    /\ mergeObjects = << >>
    /\ mergeReturned = 0
    /\ constructed = << >>
    /\ callerBackRefs = {EmptyStr}
    /\ NoCategories
    /\ \E k \in 1..MaxMedias :
       \E medias \in [1..k -> NewMedias(MaxObjs)] :
           LET u == AddMedias(medias,
                        [_medias |-> << >>,
                         _media_back_references |-> {},
                         _media_object_back_references |-> {},
                         _media_object_cnt |-> 0,
                         warnings |-> << >>],
                        [i \in 1..k |-> i], 1)
           IN  /\ CountObjects(medias, k) <= MaxObjs
               /\ heap = medias
               /\ _medias = u._medias
               /\ _media_back_references = u._media_back_references
               /\ _media_object_back_references = u._media_object_back_references
               /\ _media_object_cnt = u._media_object_cnt
               /\ warnings = u.warnings
    /\ pc = "idle"
    /\ idx = 0
    /\ media_upload_response = BulkResponse
    /\ jdx = 0
    /\ batch_media_object_responses = << >>
    /\ media_upload_responses = << >>
    /\ media_object_upload_responses = << >>
    /\ progress = [n |-> 0, total |-> 0]
    /\ result = NoResult
    /\ error = ""
    /\ calls = << >>
    /\ resolved = {}
    /\ uuidCnt = 0
    /\ serverCnt = 0
    /\ uploads = MaxUploads - 1
    /\ faults = 0

NextLive ==
    \/ upload
    \/ _upload_media_batch
    \/ _upload_media_object_batch

\* upload() is synchronous and single-threaded: as long as the calls of the
\* service client return, the batch it is at is carried out.  The caller is
\* under no obligation to call upload.
SpecLive ==
    /\ InitLive
    /\ [][NextLive]_vars
    /\ WF_vars(_upload_media_batch)
    /\ WF_vars(_upload_media_object_batch)

\* ------------------------------------- _merge_bulk_responses on its own
\* The i-th argument of a call: any status, c results of which the first s
\* report success, and the summary that counts them.  The results of different
\* arguments carry different tokens and ids.
MergeArg(i, status, c, s) ==
    [status |-> status,
     results |-> [k \in 1..c |-> Outcome(10 * i + k, k <= s, 10 * i + k)],
     summary |-> [total |-> c, successful |-> s, failed |-> c - s]]

MergeArgs(i) ==
    {y \in {MergeArg(i, status, c, s) :
               status \in BulkOperationStatusEnum, c \in 0..MaxCount, s \in 0..MaxCount} :
        y.summary.failed >= 0}

RECURSIVE MergeInputs(_)
\* the argument lists of length n
MergeInputs(n) ==
    IF n = 0 THEN {<< >>}
    ELSE {Append(a, x) : a \in MergeInputs(n - 1), x \in MergeArgs(n)}

InitMerge ==
    /\ InitUpload
    /\ BULK_UPLOAD_LIMIT = 1
    /\ mergeArgs \in UNION {MergeInputs(n) : n \in 0..MaxArgs}
    /\ mergeResult = BulkResponse
    /\ mergePc = "ready"
    /\ mergeObjects = mergeArgs
    /\ mergeReturned = 0
    /\ constructed = << >>
    /\ callerBackRefs = {EmptyStr}
    /\ NoCategories

\* the call _merge_bulk_responses(*mergeArgs)
MergeCall ==
    /\ mergePc = "ready"
    /\ mergeResult' = _merge_bulk_responses(mergeArgs)
    /\ LET r == _merge_bulk_responses_by_reference(
                    mergeObjects, [i \in 1..Len(mergeArgs) |-> i])
       IN  /\ mergeObjects' = r.heap
           /\ mergeReturned' = r.ret
    /\ mergePc' = "done"
    /\ UNCHANGED <<uploadVars, mergeArgs, constructed, callerBackRefs, subsetVars>>

NextMerge == MergeCall

SpecMerge == InitMerge /\ [][NextMerge]_vars

\* ------------------- _set_bulk_operation_annotatable_id on its own
\* One HARIMedia holding one HARIMediaObject, each with any token an item can
\* carry when the method is called on it: None, "", or a token set before.
InitSetId ==
    /\ BULK_UPLOAD_LIMIT = 1
    /\ \E t \in {NoneVal, EmptyStr} \cup 1..MaxPreset,
          u \in {NoneVal, EmptyStr} \cup 1..MaxPreset :
           heap = <<[media_objects |-> <<[media_id |-> EmptyStr,
                                          bulk_operation_annotatable_id |-> u]>>,
                     bulk_operation_annotatable_id |-> t]>>
    /\ _medias = <<1>>
    /\ _media_object_cnt = 1
    /\ pc = "idle"
    /\ idx = 0
    /\ media_upload_response = BulkResponse
    /\ jdx = 0
    /\ batch_media_object_responses = << >>
    /\ media_upload_responses = << >>
    /\ media_object_upload_responses = << >>
    /\ progress = [n |-> 0, total |-> 0]
    /\ result = NoResult
    /\ error = ""
    /\ calls = << >>
    /\ resolved = {}
    /\ uuidCnt = MaxPreset
    /\ serverCnt = 0
    /\ uploads = 0
    /\ faults = 0
    /\ _media_back_references = {}
    /\ _media_object_back_references = {}
    /\ warnings = << >>
    /\ mergeArgs = << >>
    /\ mergeResult = BulkResponse
    /\ mergePc = "done"
    /\ mergeObjects = << >>
    /\ mergeReturned = 0
    /\ constructed = << >>
    /\ callerBackRefs = {EmptyStr}
    /\ NoCategories

\* self._set_bulk_operation_annotatable_id(item=media)
SetMediaId ==
    /\ Len(calls) < MaxSetCalls
    /\ LET set == SetMediaIds(heap, uuidCnt, <<1>>, 1)
       IN  /\ heap' = set.heap
           /\ uuidCnt' = set.cnt
           /\ calls' = Append(calls,
                  [op |-> "_set_bulk_operation_annotatable_id", item |-> "media",
                   before |-> heap[1].bulk_operation_annotatable_id,
                   after |-> set.heap[1].bulk_operation_annotatable_id])
    /\ UNCHANGED <<BULK_UPLOAD_LIMIT, _medias, _media_object_cnt, pc, idx,
                   media_upload_response, jdx, batch_media_object_responses,
                   media_upload_responses, media_object_upload_responses,
                   progress, result, error, resolved, serverCnt, uploads,
                   faults, mergeVars, constructed,
                   backRefVars, callerBackRefs, subsetVars>>

\* self._set_bulk_operation_annotatable_id(item=media_object)
SetMediaObjectId ==
    /\ Len(calls) < MaxSetCalls
    /\ LET set == SetObjectIds(heap, uuidCnt, << <<1, 1>> >>, 1)
       IN  /\ heap' = set.heap
           /\ uuidCnt' = set.cnt
           /\ calls' = Append(calls,
                  [op |-> "_set_bulk_operation_annotatable_id", item |-> "media_object",
                   before |-> heap[1].media_objects[1].bulk_operation_annotatable_id,
                   after |-> set.heap[1].media_objects[1].bulk_operation_annotatable_id])
    /\ UNCHANGED <<BULK_UPLOAD_LIMIT, _medias, _media_object_cnt, pc, idx,
                   media_upload_response, jdx, batch_media_object_responses,
                   media_upload_responses, media_object_upload_responses,
                   progress, result, error, resolved, serverCnt, uploads,
                   faults, mergeVars, constructed,
                   backRefVars, callerBackRefs, subsetVars>>

NextSetId == SetMediaId \/ SetMediaObjectId

SpecSetId == InitSetId /\ [][NextSetId]_vars

\* ----------------------------------------- entity construction on its own
\* the values a caller may pass for a reserved field
Passed == {Absent, NoneVal, EmptyStr} \cup 1..MaxPreset

InitNew ==
    /\ InitUpload
    /\ BULK_UPLOAD_LIMIT = 1
    /\ mergeArgs = << >>
    /\ mergeResult = BulkResponse
    /\ mergePc = "done"
    /\ mergeObjects = << >>
    /\ mergeReturned = 0
    /\ constructed = << >>
    /\ callerBackRefs = {EmptyStr}
    /\ NoCategories

\* the caller evaluates HARIMediaObject(...)
ConstructMediaObject ==
    /\ Len(constructed) < MaxNew
    /\ \E media_id \in Passed, token \in Passed :
           constructed' = Append(constructed,
               [cls |-> "HARIMediaObject", media_id |-> media_id,
                bulk_operation_annotatable_id |-> token,
                outcome |-> NewHARIMediaObject(media_id, token)])
    /\ UNCHANGED <<uploadVars, mergeVars, callerBackRefs, subsetVars>>

\* the caller evaluates HARIMedia(...)
ConstructMedia ==
    /\ Len(constructed) < MaxNew
    /\ \E token \in Passed :
           constructed' = Append(constructed,
               [cls |-> "HARIMedia", media_id |-> Absent,
                bulk_operation_annotatable_id |-> token,
                outcome |-> NewHARIMedia(token)])
    /\ UNCHANGED <<uploadVars, mergeVars, callerBackRefs, subsetVars>>

NextNew == ConstructMediaObject \/ ConstructMedia

SpecNew == InitNew /\ [][NextNew]_vars

\* ------------------------------------------------------ add_media on its own
\* the back_reference values of a caller: "" and non-empty ones
BackRefs == {EmptyStr} \cup 1..MaxBackRefs

InitAdd ==
    /\ InitUpload
    /\ BULK_UPLOAD_LIMIT = 1
    /\ mergeArgs = << >>
    /\ mergeResult = BulkResponse
    /\ mergePc = "done"
    /\ mergeObjects = << >>
    /\ mergeReturned = 0
    /\ constructed = << >>
    /\ callerBackRefs = BackRefs
    /\ NoCategories

NextAdd == add_media

SpecAdd == InitAdd /\ [][NextAdd]_vars

\* ------------------------------------------- object category subsets
\* category and subset names: 1..MaxCategories may be declared as object
\* categories, MaxCategories + 1 is the name of a subset no category has
SubsetNames == 1..(MaxCategories + 1)

\* a subset of the dataset: `existing` tells whether it was there before the
\* uploader created any
Subset(name, id, existing) == [name |-> name, id |-> id, existing |-> existing]

RECURSIVE Sorted(_)
\* the elements of a set of names in ascending order
Sorted(S) ==
    IF S = {} THEN << >>
    ELSE LET least == CHOOSE x \in S : \A y \in S : x <= y
         IN  <<least>> \o Sorted(S \ {least})

\* m with category c mapped to id
MapWith(m, c, id) == [x \in DOMAIN m \cup {c} |-> IF x = c THEN id ELSE m[x]]

RECURSIVE ProvisionWithoutReuse(_, _, _)
\* ProvisionSubsets creating a subset for every category, matching or not
ProvisionWithoutReuse(u, categories, i) ==
    IF i > Len(categories) THEN u
    ELSE LET c == categories[i]
             id == u.serverCnt + 1
         IN  ProvisionWithoutReuse(
                 [u EXCEPT !.subsets = @ \cup {Subset(c, id, FALSE)},
                           !.serverCnt = id,
                           !.calls = Append(@, [op |-> "create_empty_subset",
                                                subset_name |-> c]),
                           !.map = MapWith(@, c, id)],
                 categories, i + 1)

RECURSIVE ProvisionSubsets(_, _, _)
\* the provisioner, over categories[i..]: a category whose name is the name
\* of a subset of the dataset takes that subset's id; for any other a new
\* empty subset is created (one create_empty_subset call) and its id taken.
\* u holds the dataset's subsets, the calls made and the mapping so far.
ProvisionSubsets(u, categories, i) ==
    IF i > Len(categories) THEN u
    ELSE LET c == categories[i]
             named == {x \in u.subsets : x.name = c}
             id == u.serverCnt + 1
         IN  ProvisionSubsets(
                 IF named # {}
                 THEN [u EXCEPT !.map = MapWith(@, c, (CHOOSE x \in named : TRUE).id)]
                 ELSE [u EXCEPT !.subsets = @ \cup {Subset(c, id, FALSE)},
                                !.serverCnt = id,
                                !.calls = Append(@, [op |-> "create_empty_subset",
                                                     subset_name |-> c]),
                                !.map = MapWith(@, c, id)],
                 categories, i + 1)

\* An uploader built with any set of declared object categories, on a dataset
\* that has any set of subsets already, holding one media to upload.
InitSubsets ==
    /\ BULK_UPLOAD_LIMIT = 1
    /\ heap = <<MediaWith(EmptyStr, << >>)>>
    /\ _medias = <<1>>
    /\ _media_object_cnt = 0
    /\ pc = "idle"
    /\ idx = 0
    /\ media_upload_response = BulkResponse
    /\ jdx = 0
    /\ batch_media_object_responses = << >>
    /\ media_upload_responses = << >>
    /\ media_object_upload_responses = << >>
    /\ progress = [n |-> 0, total |-> 0]
    /\ result = NoResult
    /\ error = ""
    /\ calls = << >>
    /\ resolved = {}
    /\ uuidCnt = 0
    /\ serverCnt = MaxCategories + 1
    /\ uploads = 0
    /\ faults = 0
    /\ _media_back_references = {EmptyStr}
    /\ _media_object_back_references = {}
    /\ warnings = << >>
    /\ mergeArgs = << >>
    /\ mergeResult = BulkResponse
    /\ mergePc = "done"
    /\ mergeObjects = << >>
    /\ mergeReturned = 0
    /\ constructed = << >>
    /\ callerBackRefs = {EmptyStr}
    /\ object_categories \in SUBSET (1..MaxCategories)
    /\ _object_category_subsets = EmptyMap
    /\ \E names \in SUBSET SubsetNames :
           subsets = {Subset(n, n, TRUE) : n \in names}

\* upload() of an uploader with object categories, up to the first media
\* batch: the provisioner runs, then the upload is set up as in `upload`
upload_with_object_categories ==
    /\ pc = "idle"
    /\ uploads < MaxUploads
    /\ Len(_medias) > 0
    /\ LET u == ProvisionSubsets(
                    [subsets |-> subsets, serverCnt |-> serverCnt,
                     calls |-> << >>, map |-> _object_category_subsets],
                    Sorted(object_categories), 1)
       IN  /\ subsets' = u.subsets
           /\ serverCnt' = u.serverCnt
           /\ calls' = u.calls
           /\ _object_category_subsets' = u.map
    /\ uploads' = uploads + 1
    /\ resolved' = {}
    /\ error' = ""
    /\ result' = NoResult
    /\ pc' = "create_medias"
    /\ progress' = [n |-> 0, total |-> Len(_medias)]
    /\ LocalsGone
    /\ UNCHANGED <<BULK_UPLOAD_LIMIT, heap, _medias, _media_object_cnt,
                   uuidCnt, faults, mergeVars, constructed, backRefVars,
                   callerBackRefs, object_categories>>

NextSubsets == upload_with_object_categories \/ _upload_media_batch

SpecSubsets == InitSubsets /\ [][NextSubsets]_vars

\* ============================================================== the claims
\* ---------------------------------------------------------------- helpers
RECURSIVE SumLen(_, _)
\* the number of results of args[1..n]
SumLen(args, n) == IF n = 0 THEN 0 ELSE SumLen(args, n - 1) + Len(args[n].results)

RECURSIVE SumCount(_, _, _)
\* the sum of summary.<field> over args[1..n]
SumCount(field, args, n) ==
    IF n = 0 THEN 0 ELSE SumCount(field, args, n - 1) + args[n].summary[field]

MergeDone == mergePc = "done"

\* C1: for two or more inputs whose statuses are not all equal, the merged
\* status is PARTIAL_SUCCESS if some input is SUCCESS and FAILURE otherwise.
C1_MixedStatusRollup ==
    (MergeDone /\ Len(mergeArgs) >= 2 /\ Cardinality(Statuses(mergeArgs)) > 1)
    => mergeResult.status =
           IF SUCCESS \in Statuses(mergeArgs) THEN PARTIAL_SUCCESS ELSE FAILURE

\* C2: for two or more inputs that all carry the same status s, the merged
\* status is s.
C2_SameStatusKept ==
    \A s \in BulkOperationStatusEnum :
        (MergeDone /\ Len(mergeArgs) >= 2 /\ Statuses(mergeArgs) = {s})
        => mergeResult.status = s

C2_Witness ==
    /\ MergeDone
    /\ Len(mergeArgs) = 3
    /\ Statuses(mergeArgs) = {FAILURE}
    /\ mergeResult.status = FAILURE

\* C3: for two or more inputs, the merged results are the inputs' results
\* one after the other in argument order, and each merged count is the sum of
\* the inputs' counts.
C3_ResultsConcatenatedCountsSummed ==
    (MergeDone /\ Len(mergeArgs) >= 2)
    => /\ Len(mergeResult.results) = SumLen(mergeArgs, Len(mergeArgs))
       /\ \A i \in 1..Len(mergeArgs) : \A k \in 1..Len(mergeArgs[i].results) :
              mergeResult.results[SumLen(mergeArgs, i - 1) + k] = mergeArgs[i].results[k]
       /\ mergeResult.summary.total = SumCount("total", mergeArgs, Len(mergeArgs))
       /\ mergeResult.summary.successful = SumCount("successful", mergeArgs, Len(mergeArgs))
       /\ mergeResult.summary.failed = SumCount("failed", mergeArgs, Len(mergeArgs))

C3_Witness ==
    /\ MergeDone
    /\ Len(mergeArgs) = 3
    /\ \A i \in 1..3 : Len(mergeArgs[i].results) = 1
    /\ Len(mergeResult.results) = 3
    /\ mergeResult.summary.successful = 2
    /\ mergeResult.summary.failed = 1

\* C4: with zero inputs the merge returns status SUCCESS, no results and
\* total = successful = failed = 0.
C4_EmptyMerge ==
    (MergeDone /\ Len(mergeArgs) = 0)
    => /\ mergeResult.status = SUCCESS
       /\ mergeResult.results = << >>
       /\ mergeResult.summary = [total |-> 0, successful |-> 0, failed |-> 0]

C4_Witness == MergeDone /\ mergeArgs = << >> /\ mergeResult.status = SUCCESS

\* C5: with exactly one input x the merge returns x unchanged, whatever the
\* status of x.
C5_SingleReturnedUnchanged ==
    (MergeDone /\ Len(mergeArgs) = 1) => mergeResult = mergeArgs[1]

C5_Witness ==
    /\ MergeDone
    /\ Len(mergeArgs) = 1
    /\ mergeArgs[1].status = FAILURE
    /\ Len(mergeArgs[1].results) = 1
    /\ mergeResult.status = FAILURE
    /\ mergeResult.results = mergeArgs[1].results

\* --------------------------------------------------- the upload pipeline
\* the create_medias / create_media_objects calls of the current upload()
MediaCalls == SelectSeq(calls, LAMBDA c : c.op = "create_medias")
ObjectCalls == SelectSeq(calls, LAMBDA c : c.op = "create_media_objects")

\* the references of the items of one call
Refs(c) == [i \in 1..Len(c.items) |-> c.items[i].ref]

RECURSIVE ConcatRefs(_, _)
\* the references sent by cs[1..n], one call after the other
ConcatRefs(cs, n) == IF n = 0 THEN << >> ELSE ConcatRefs(cs, n - 1) \o Refs(cs[n])

UploadRunning == pc \in {"create_medias", "create_media_objects"}
UploadReturnedResults == pc = "returned" /\ result.kind = "HARIUploadResults"

\* C6: the media batches passed to create_medias are contiguous slices of the
\* pending list in its order: what has been sent so far is a prefix of the
\* list, every batch holds at most BULK_UPLOAD_LIMIT medias, every batch but
\* the last holds exactly BULK_UPLOAD_LIMIT, and when upload() returns its
\* results the batches together are the whole list.
C6_MediaBatchesAreSlices ==
    LET sent == ConcatRefs(MediaCalls, Len(MediaCalls))
    IN  /\ Len(sent) <= Len(_medias)
        /\ sent = SubSeq(_medias, 1, Len(sent))
        /\ \A k \in 1..Len(MediaCalls) :
               /\ Len(MediaCalls[k].items) <= BULK_UPLOAD_LIMIT
               /\ k < Len(MediaCalls) => Len(MediaCalls[k].items) = BULK_UPLOAD_LIMIT
        /\ UploadReturnedResults => sent = _medias

C6_Witness ==
    /\ UploadReturnedResults
    /\ BULK_UPLOAD_LIMIT = 2
    /\ Len(_medias) = 3
    /\ Len(MediaCalls) = 2
    /\ Refs(MediaCalls[1]) = SubSeq(_medias, 1, 2)
    /\ Refs(MediaCalls[2]) = SubSeq(_medias, 3, 3)

\* C7: every create_medias call and every create_media_objects call of an
\* upload() carries at least 1 and at most BULK_UPLOAD_LIMIT items.
C7_CallSizesWithinLimit ==
    \A k \in 1..Len(calls) :
        /\ Len(calls[k].items) >= 1
        /\ Len(calls[k].items) <= BULK_UPLOAD_LIMIT

C7_Witness ==
    /\ BULK_UPLOAD_LIMIT = 1
    /\ Len(MediaCalls) = 2
    /\ Len(ObjectCalls) = 2
    /\ \A k \in 1..Len(calls) : Len(calls[k].items) = 1

\* the outcomes of the current media batch response that carry media m's token
Matches(m) == Filtered(media_upload_response, heap[m].bulk_operation_annotatable_id)

\* C8: once _update_hari_media_object_media_ids has processed a media batch
\* response in which every submitted token matches exactly one outcome, every
\* media object of each media of the batch carries that outcome's server id as
\* its media_id, and none is left with an empty or null media_id.
C8_ObjectsCarryParentId ==
    pc = "create_media_objects"
    => \A i \in 1..Len(medias_to_upload) :
           LET m == medias_to_upload[i]
           IN  /\ Len(Matches(m)) = 1
               /\ \A j \in 1..Len(heap[m].media_objects) :
                      /\ heap[m].media_objects[j].media_id = Matches(m)[1].item_id
                      /\ Truthy(heap[m].media_objects[j].media_id)

\* C9: a media object is never submitted before its parent is resolved: each
\* item of a create_media_objects call has a non-empty media_id, its parent
\* media was sent in an earlier create_medias call of the same upload() and
\* has been resolved; and as long as a media has not been sent at all (it has
\* no token yet) the media_id of its media objects is empty.
C9_ObjectsSubmittedAfterParentResolved ==
    /\ \A k \in 1..Len(calls) :
           calls[k].op = "create_media_objects"
           => \A i \in 1..Len(calls[k].items) :
                  LET item == calls[k].items[i]
                  IN  /\ Truthy(item.media_id)
                      /\ item.ref[1] \in resolved
                      /\ \E k2 \in 1..(k - 1) :
                             /\ calls[k2].op = "create_medias"
                             /\ \E i2 \in 1..Len(calls[k2].items) :
                                    calls[k2].items[i2].ref = item.ref[1]
    /\ \A m \in 1..Len(heap) :
           ~Truthy(heap[m].bulk_operation_annotatable_id)
           => \A j \in 1..Len(heap[m].media_objects) :
                  heap[m].media_objects[j].media_id = EmptyStr

\* the first media of the current batch whose token does not match exactly
\* one outcome of the response, 0 when there is none
FirstUnmatched ==
    LET bad == {i \in 1..Len(medias_to_upload) : Len(Matches(medias_to_upload[i])) # 1}
    IN  IF bad = {} THEN 0 ELSE CHOOSE i \in bad : \A i2 \in bad : i <= i2

\* C10: dependency resolution fails the whole upload() call exactly when the
\* media batch response does not hold exactly one outcome per submitted media
\* token: upload() raises HARIMediaUploadError and returns no result, with the
\* missing-correlation message when the first unmatched media has no outcome
\* and the duplicate-correlation message when it has several; a batch that
\* upload() goes on from, or returns results after, had every token matched
\* exactly once.
C10_ResolutionFailsUpload ==
    /\ pc = "raised"
       => /\ result.kind = "unset"
          /\ FirstUnmatched # 0
          /\ Len(Matches(medias_to_upload[FirstUnmatched])) = 0
             => error = "Couldn't find"
          /\ Len(Matches(medias_to_upload[FirstUnmatched])) > 1
             => error = "contains multiple items"
    /\ pc = "create_media_objects" => FirstUnmatched = 0 /\ error = ""
    /\ UploadRunning
       => \A k \in 1..Len(media_upload_responses) :
              LET batch == Slice(_medias, (k - 1) * BULK_UPLOAD_LIMIT, BULK_UPLOAD_LIMIT)
              IN  \A i \in 1..Len(batch) :
                      Len(Filtered(media_upload_responses[k],
                                   heap[batch[i]].bulk_operation_annotatable_id)) = 1
    /\ UploadReturnedResults
       => \A k \in 1..Len(MediaCalls) : \A i \in 1..Len(MediaCalls[k].items) :
              Len(Filtered(result.medias,
                           MediaCalls[k].items[i].bulk_operation_annotatable_id)) = 1

C10_Witness ==
    /\ pc = "raised"
    /\ error = "Couldn't find"
    /\ idx > 0
    /\ result.kind = "unset"
    /\ Len(Matches(medias_to_upload[1])) = 0

\* the position in _medias (from 1) of the media with reference m
PositionOf(m) == CHOOSE p \in 1..Len(_medias) : _medias[p] = m

\* the original wording of C11: when upload() fails with the
\* missing-correlation error, no create_media_objects call was made at any
\* point of that upload() call.
C11_NoObjectCallOnMissingToken ==
    (pc = "raised" /\ error = "Couldn't find") => Len(ObjectCalls) = 0

\* C11 (amended): if the create_medias response of a media batch holds no
\* outcome for the token of a submitted media, and every media before it in
\* the batch matches exactly one outcome, upload() fails with the
\* missing-correlation error and returns nothing; that create_medias call is
\* the last service call of the upload(), so no create_media_objects call is
\* made for that media batch or any later one, and none at all when the
\* omission is in the first batch; the media objects of earlier media batches
\* have been submitted before.
C11_MissingTokenStopsUpload ==
    (/\ pc \in {"create_media_objects", "raised"}
     /\ FirstUnmatched # 0
     /\ Len(Matches(medias_to_upload[FirstUnmatched])) = 0)
    => /\ pc = "raised"
       /\ error = "Couldn't find"
       /\ result.kind = "unset"
       /\ calls[Len(calls)].op = "create_medias"
       /\ Refs(calls[Len(calls)]) = medias_to_upload
       /\ \A k \in 1..Len(ObjectCalls) : \A i \in 1..Len(ObjectCalls[k].items) :
              PositionOf(ObjectCalls[k].items[i].ref[1]) <= idx
       /\ idx = 0 => Len(ObjectCalls) = 0

C11_Witness ==
    /\ pc = "raised"
    /\ error = "Couldn't find"
    /\ idx > 0
    /\ Len(ObjectCalls) >= 1
    /\ calls[Len(calls)].op = "create_medias"
    /\ Len(Matches(medias_to_upload[FirstUnmatched])) = 0

\* the responses of the calls cs, in call order
Responses(cs) == [k \in 1..Len(cs) |-> cs[k].response]

\* all media objects of the pending list, media by media
AllMediaObjects == Flatten(heap, _medias, Len(_medias))

\* some call of the current upload() was answered with FAILURE or
\* PARTIAL_SUCCESS
SomeBatchFailed ==
    \E k \in 1..Len(calls) : calls[k].response.status \in {FAILURE, PARTIAL_SUCCESS}

\* C12: a batch answered with FAILURE or PARTIAL_SUCCESS does not abort the
\* upload(): the call is only ever abandoned because a media token does not
\* match exactly one outcome, and an upload() in which some batch failed
\* returns after every media batch and every media-object batch has been
\* submitted, with the merge of the responses of all of them.
C12_FailedBatchDoesNotAbort ==
    /\ pc = "raised" => FirstUnmatched # 0
    /\ (UploadReturnedResults /\ SomeBatchFailed)
       => /\ ConcatRefs(MediaCalls, Len(MediaCalls)) = _medias
          /\ ConcatRefs(ObjectCalls, Len(ObjectCalls)) = AllMediaObjects
          /\ result.medias = _merge_bulk_responses(Responses(MediaCalls))
          /\ result.media_objects = _merge_bulk_responses(Responses(ObjectCalls))

C12_Witness ==
    /\ UploadReturnedResults
    /\ Len(MediaCalls) >= 2
    /\ MediaCalls[1].response.status = FAILURE
    /\ Len(ObjectCalls) >= 1
    /\ result.medias.status = PARTIAL_SUCCESS
    /\ Len(result.medias.results) = Len(_medias)

\* the index in calls of the last create_medias call before calls[k], 0 when
\* there is none
LastMediaCallBefore(k) ==
    LET before == {k2 \in 1..(k - 1) : calls[k2].op = "create_medias"}
    IN  IF before = {} THEN 0 ELSE CHOOSE k2 \in before : \A k3 \in before : k3 <= k2

\* the original wording of C13: every create_medias call of an upload()
\* happens before its first create_media_objects call.
C13_AllMediaCallsBeforeObjectCalls ==
    \A k1 \in 1..Len(calls) : \A k2 \in 1..Len(calls) :
        (calls[k1].op = "create_media_objects" /\ k1 < k2)
        => calls[k2].op # "create_medias"

\* C13 (amended): within one upload() call the order media then media-objects
\* holds per media batch: the first call is a create_medias call, every
\* create_media_objects call carries only media objects of the medias of the
\* last create_medias call before it, and by the time of the next create_medias
\* call all media objects of the previous media batch have been submitted, in
\* order.
C13_MediaThenObjectsPerBatch ==
    /\ Len(calls) > 0 => calls[1].op = "create_medias"
    /\ \A k \in 1..Len(calls) :
           LET kp == LastMediaCallBefore(k)
           IN  /\ calls[k].op = "create_media_objects"
                  => /\ kp # 0
                     /\ \A i \in 1..Len(calls[k].items) :
                            \E i2 \in 1..Len(calls[kp].items) :
                                calls[kp].items[i2].ref = calls[k].items[i].ref[1]
               /\ (calls[k].op = "create_medias" /\ kp # 0)
                  => ConcatRefs(SubSeq(calls, kp + 1, k - 1), k - 1 - kp)
                         = Flatten(heap, Refs(calls[kp]), Len(calls[kp].items))

C13_Witness ==
    /\ Len(calls) = 4
    /\ calls[1].op = "create_medias"
    /\ calls[2].op = "create_media_objects"
    /\ calls[3].op = "create_medias"
    /\ calls[4].op = "create_media_objects"
    /\ calls[4].items[1].ref[1] = calls[3].items[1].ref

\* C14: an upload() call made while no media is pending returns at once, in
\* one step from the caller to the caller: it returns None, makes no
\* create_medias and no create_media_objects call, draws no correlation token
\* and changes no entity; and None is returned in no other case.
C14_EmptyUploadReturnsNone ==
    [][/\ (uploads' # uploads /\ Len(_medias) = 0)
          => /\ pc' = "returned"
             /\ result' = NoneResult
             /\ calls' = << >>
             /\ uuidCnt' = uuidCnt
             /\ serverCnt' = serverCnt
             /\ heap' = heap
       /\ (result'.kind = "None") => Len(_medias') = 0]_vars

C14_Witness ==
    /\ pc = "returned"
    /\ result = NoneResult
    /\ Len(_medias) = 0
    /\ uploads = 2
    /\ calls = << >>
    /\ uuidCnt = 0

\* `summary` holds the results of `responses` one after the other and the sums
\* of their counts
MergedInOrder(summary, responses) ==
    /\ Len(summary.results) = SumLen(responses, Len(responses))
    /\ \A k \in 1..Len(responses) : \A i \in 1..Len(responses[k].results) :
           summary.results[SumLen(responses, k - 1) + i] = responses[k].results[i]
    /\ summary.summary.total = SumCount("total", responses, Len(responses))
    /\ summary.summary.successful = SumCount("successful", responses, Len(responses))
    /\ summary.summary.failed = SumCount("failed", responses, Len(responses))

\* C15: the results upload() returns hold one merged summary per entity kind:
\* medias is the merge of the responses of all create_medias calls and
\* media_objects the merge of the responses of all create_media_objects calls,
\* each in submission order; as every response reports its item count as
\* total, medias.summary.total is the number of medias (3 for 3 medias and
\* batch size 2) and media_objects.summary.total the number of media objects;
\* when no media has a media object, media_objects is the empty summary with
\* status SUCCESS.
C15_OneMergedSummaryPerKind ==
    UploadReturnedResults
    => /\ result.medias = _merge_bulk_responses(Responses(MediaCalls))
       /\ result.media_objects = _merge_bulk_responses(Responses(ObjectCalls))
       /\ MergedInOrder(result.medias, Responses(MediaCalls))
       /\ MergedInOrder(result.media_objects, Responses(ObjectCalls))
       /\ result.medias.summary.total = Len(_medias)
       /\ result.media_objects.summary.total = Len(AllMediaObjects)
       /\ (Len(_medias) = 3 /\ BULK_UPLOAD_LIMIT = 2)
          => result.medias.summary.total = 3
       /\ Len(AllMediaObjects) = 0
          => result.media_objects =
                 [status |-> SUCCESS, results |-> << >>,
                  summary |-> [total |-> 0, successful |-> 0, failed |-> 0]]

C15_Witness ==
    /\ UploadReturnedResults
    /\ Len(_medias) = 3
    /\ BULK_UPLOAD_LIMIT = 2
    /\ Len(MediaCalls) = 2
    /\ result.medias.summary.total = 3
    /\ Len(AllMediaObjects) = 0
    /\ result.media_objects.status = SUCCESS
    /\ result.media_objects.results = << >>

\* the tokens an item of the set-id calls carried at the start, or was given
\* by a call before calls[k]
TokensBefore(k) ==
    ({NoneVal, EmptyStr} \cup 1..MaxPreset) \cup {calls[k2].after : k2 \in 1..(k - 1)}

\* C16: _set_bulk_operation_annotatable_id changes an item's token if and
\* only if the token is unset (None or ""), and then to a non-empty value no
\* item carried before; it is idempotent: every later call on the same item
\* leaves the token the first call left.
C16_SetIdOnlyWhenUnsetIdempotent ==
    \A k \in 1..Len(calls) :
        /\ (calls[k].after # calls[k].before) <=> ~Truthy(calls[k].before)
        /\ ~Truthy(calls[k].before)
           => Truthy(calls[k].after) /\ calls[k].after \notin TokensBefore(k)
        /\ \A k2 \in (k + 1)..Len(calls) :
               calls[k2].item = calls[k].item => calls[k2].after = calls[k].after

C16_Witness ==
    /\ Len(calls) = 3
    /\ \A k \in 1..3 : calls[k].item = "media_object"
    /\ calls[1].before = NoneVal
    /\ Truthy(calls[1].after)
    /\ calls[3].after = calls[1].after
    /\ heap[1].media_objects[1].bulk_operation_annotatable_id = calls[1].after

\* the items the caller has built: <<m, 0>> is media m, <<m, j>> its j-th
\* media object
Items ==
    {<<m, 0>> : m \in 1..Len(heap)}
    \cup UNION {{<<m, j>> : j \in 1..Len(heap[m].media_objects)} : m \in 1..Len(heap)}

\* the token of an item in heap h
TokenIn(h, item) ==
    IF item[2] = 0 THEN h[item[1]].bulk_operation_annotatable_id
    ELSE h[item[1]].media_objects[item[2]].bulk_operation_annotatable_id

TokenOf(item) == TokenIn(heap, item)

\* the item an entry of a call stands for
ItemOf(c, i) == IF c.op = "create_medias" THEN <<c.items[i].ref, 0>> ELSE c.items[i].ref

\* C17: over any sequence of add_media and upload calls on one uploader, no
\* two distinct items (two medias, two media objects, or a media and a media
\* object) carry equal correlation tokens: the tokens given so far are
\* pairwise different, every item is submitted with its own token, and two
\* entries of the calls of an upload() that stand for different items carry
\* different tokens.
C17_TokensUnique ==
    /\ \A a \in Items : \A b \in Items :
           (a # b /\ Truthy(TokenOf(a)) /\ Truthy(TokenOf(b)))
           => TokenOf(a) # TokenOf(b)
    /\ \A k \in 1..Len(calls) : \A i \in 1..Len(calls[k].items) :
           /\ Truthy(calls[k].items[i].bulk_operation_annotatable_id)
           /\ calls[k].items[i].bulk_operation_annotatable_id = TokenOf(ItemOf(calls[k], i))
           /\ \A k2 \in 1..Len(calls) : \A i2 \in 1..Len(calls[k2].items) :
                  ItemOf(calls[k], i) # ItemOf(calls[k2], i2)
                  => calls[k].items[i].bulk_operation_annotatable_id
                         # calls[k2].items[i2].bulk_operation_annotatable_id

C17_Witness ==
    /\ UploadReturnedResults
    /\ uploads = 2
    /\ Len(MediaCalls) = 2
    /\ Len(ObjectCalls) = 2
    /\ uuidCnt = 4
    /\ \A a \in Items : Truthy(TokenOf(a))

\* C18: an item's correlation token is set once, before the item is first
\* submitted: every entry of a create_medias or create_media_objects call
\* carries a non-empty token, which is the token of its item, and a token that
\* is non-empty is left as it is by every step, repeated upload() calls
\* included.
C18_TokenSetOnce ==
    [][/\ \A a \in Items : Truthy(TokenOf(a)) => TokenIn(heap', a) = TokenOf(a)
       /\ \A k \in 1..Len(calls') : \A i \in 1..Len(calls'[k].items) :
              /\ Truthy(calls'[k].items[i].bulk_operation_annotatable_id)
              /\ calls'[k].items[i].bulk_operation_annotatable_id
                     = TokenIn(heap', ItemOf(calls'[k], i))]_vars

C18_Witness ==
    /\ uploads = 2
    /\ pc = "create_media_objects"
    /\ Len(MediaCalls) = 1
    /\ Cardinality(Items) = 4
    /\ uuidCnt = 4
    /\ \A a \in Items : Truthy(TokenOf(a))

\* the caller passed a non-empty value for the field
PassedNonEmpty(v) == v # Absent /\ Truthy(v)

\* C19: constructing a HARIMediaObject with a non-empty media_id or a
\* non-empty bulk_operation_annotatable_id, or a HARIMedia with a non-empty
\* bulk_operation_annotatable_id, raises and gives no entity; constructing
\* either without those fields succeeds and gives an entity whose reserved
\* fields are unset (empty or None).
C19_ReservedFieldsRejected ==
    \A k \in 1..Len(constructed) :
        LET c == constructed[k]
        IN  /\ (PassedNonEmpty(c.media_id) \/ PassedNonEmpty(c.bulk_operation_annotatable_id))
               => c.outcome.raised /\ c.outcome.entity = NoEntity
            /\ (c.media_id = Absent /\ c.bulk_operation_annotatable_id = Absent)
               => /\ ~c.outcome.raised
                  /\ c.outcome.entity.kind = c.cls
                  /\ ~Truthy(c.outcome.entity.bulk_operation_annotatable_id)
                  /\ c.cls = "HARIMediaObject" => ~Truthy(c.outcome.entity.media_id)

C19_Witness ==
    /\ Len(constructed) = 2
    /\ constructed[1].cls = "HARIMediaObject"
    /\ constructed[1].media_id = 1
    /\ constructed[1].bulk_operation_annotatable_id = Absent
    /\ constructed[1].outcome.raised
    /\ constructed[2].cls = "HARIMedia"
    /\ constructed[2].bulk_operation_annotatable_id = Absent
    /\ ~constructed[2].outcome.raised
    /\ constructed[2].outcome.entity.bulk_operation_annotatable_id = EmptyStr

\* the warnings logged by a step
NewWarnings == SubSeq(warnings', Len(warnings) + 1, Len(warnings'))

\* C20: empty and repeated back_references are advisory only: an
\* add_media(m1, .., mk) call never raises, and it leaves the pending list as
\* the previous list followed by m1, .., mk in argument order, whatever the
\* back_references of the medias and of their media objects are (empty, seen
\* before, or new); the media objects are all counted, and a media whose
\* back_reference was seen before is warned about.
C20_BackReferencesAdvisory ==
    [][Len(heap') > Len(heap)
       => LET args == [i \in 1..(Len(heap') - Len(heap)) |-> Len(heap) + i]
          IN  /\ _medias' = _medias \o args
              /\ pc' = "idle"
              /\ error' = ""
              /\ _media_object_cnt'
                     = _media_object_cnt
                       + CountObjects(SubSeq(heap', Len(heap) + 1, Len(heap')), Len(args))
              /\ \A i \in 1..Len(args) :
                     heap'[args[i]].back_reference \in _media_back_references
                     => \E w \in 1..Len(NewWarnings) :
                            NewWarnings[w] = [about |-> "media",
                                back_reference |-> heap'[args[i]].back_reference]]_vars

C20_Witness ==
    /\ pc = "idle"
    /\ _medias = <<1, 2, 3>>
    /\ heap[1].back_reference = 1
    /\ heap[2].back_reference = 1
    /\ heap[3].back_reference = EmptyStr
    /\ _media_object_cnt = 2
    /\ Len(heap[3].media_objects) = 2
    /\ heap[3].media_objects[1].back_reference = heap[3].media_objects[2].back_reference
    /\ Len(warnings) = 2

\* the medias submitted so far by the current upload()
MediasSubmitted == Len(ConcatRefs(MediaCalls, Len(MediaCalls)))

\* what C21 says of one state
ProgressCountsMedias ==
    /\ (UploadRunning \/ UploadReturnedResults \/ pc = "raised")
       => progress.total = Len(_medias)
    /\ pc = "create_medias" => progress.n = MediasSubmitted
    /\ pc \in {"create_media_objects", "raised"}
       => progress.n = MediasSubmitted - Len(medias_to_upload)
    /\ UploadReturnedResults
       => progress.n = Len(_medias) /\ progress.n = MediasSubmitted

\* C21: progress is reported one unit per submitted media: while upload()
\* runs the total of the progress bar is the number of pending medias; each
\* time a media batch is finished (its medias and their media objects sent)
\* the progress is the number of medias submitted so far, and until then it
\* is that number less the batch in hand; within an upload() the progress
\* never decreases, and when upload() returns results it is the number of
\* pending medias.
C21_ProgressPerMedia ==
    [][/\ ProgressCountsMedias'
       /\ UploadRunning => progress'.n >= progress.n /\ progress'.total = progress.total
       /\ (pc = "create_media_objects" /\ pc' # "create_media_objects")
          => progress'.n = progress.n + Len(medias_to_upload)]_vars

C21_Witness ==
    /\ pc = "create_medias"
    /\ BULK_UPLOAD_LIMIT = 2
    /\ idx = 2
    /\ progress = [n |-> 2, total |-> 3]
    /\ Len(ObjectCalls) = 1

\* the create_empty_subset calls of the current upload()
SubsetCalls == SelectSeq(calls, LAMBDA c : c.op = "create_empty_subset")

\* the subsets of the dataset that were there before the uploader ran
ExistingSubsets == {x \in subsets : x.existing}

RaisedAtOnce ==
    pc = "raised"
    => /\ error \in {"Couldn't find", "contains multiple items"}
       /\ result.kind = "unset"
       /\ calls[Len(calls)].op = "create_medias"
       /\ Refs(calls[Len(calls)]) = medias_to_upload
       /\ Len(MediaCalls) = idx \div BULK_UPLOAD_LIMIT + 1
       /\ MediasSubmitted = idx + Len(medias_to_upload)
       /\ \A k \in 1..Len(ObjectCalls) : \A i \in 1..Len(ObjectCalls[k].items) :
              PositionOf(ObjectCalls[k].items[i].ref[1]) <= idx
       /\ \A i \in FirstUnmatched..Len(medias_to_upload) :
              medias_to_upload[i] \notin resolved

\* C23: a correlation error is surfaced at once and never retried: when
\* _update_hari_media_object_media_ids raises for a media batch, the medias
\* from the unmatched one on are left unresolved, that batch's create_medias
\* call is the last call of the upload() and was made once, so none of the
\* batch's media objects and no later media batch has been submitted; and
\* the upload() makes no further call: the next step is the caller's.
C23_ErrorSurfacedNotRetried ==
    [][/\ RaisedAtOnce'
       /\ (pc \in {"create_media_objects", "raised"} /\ FirstUnmatched # 0)
          => pc = "raised"
       /\ pc = "raised"
          => /\ uploads' = uploads + 1 \/ Len(heap') > Len(heap)
             /\ calls' = << >>]_vars

C23_Witness ==
    /\ pc = "raised"
    /\ error = "contains multiple items"
    /\ BULK_UPLOAD_LIMIT = 2
    /\ Len(medias_to_upload) = 2
    /\ FirstUnmatched = 1
    /\ Len(heap[medias_to_upload[2]].media_objects) > 0
    /\ Len(ObjectCalls) = 0

\* ceil(n / d)
Ceil(n, d) == (n + d - 1) \div d

\* the index in calls of the first create_medias call after calls[k], and
\* Len(calls) + 1 when there is none
NextMediaCallAfter(k) ==
    LET later == {k2 \in (k + 1)..Len(calls) : calls[k2].op = "create_medias"}
    IN  IF later = {} THEN Len(calls) + 1
        ELSE CHOOSE k2 \in later : \A k3 \in later : k2 <= k3

\* C24: media-object batches are planned per media batch: the calls made
\* between the create_medias call of a media batch and the next create_medias
\* call are create_media_objects calls that carry, in this order, consecutive
\* slices of the batch's media objects flattened in media order then object
\* order; each slice holds at most BULK_UPLOAD_LIMIT objects and each but the
\* last exactly that many, so no call mixes objects of two media batches; and
\* once the next media batch is submitted or upload() has returned, all of the
\* batch's objects have been sent, in ceil(objects / BULK_UPLOAD_LIMIT) calls.
C24_ObjectBatchesPerMediaBatch ==
    \A kp \in 1..Len(calls) :
        calls[kp].op = "create_medias"
        => LET kn == NextMediaCallAfter(kp)
               between == SubSeq(calls, kp + 1, kn - 1)
               sent == ConcatRefs(between, Len(between))
               all == Flatten(heap, Refs(calls[kp]), Len(calls[kp].items))
           IN  /\ Len(sent) <= Len(all)
               /\ sent = SubSeq(all, 1, Len(sent))
               /\ \A k \in 1..Len(between) :
                      /\ between[k].op = "create_media_objects"
                      /\ Len(between[k].items) <= BULK_UPLOAD_LIMIT
                      /\ k < Len(between)
                         => Len(between[k].items) = BULK_UPLOAD_LIMIT
               /\ (kn <= Len(calls) \/ UploadReturnedResults)
                  => /\ sent = all
                     /\ Len(between) = Ceil(Len(all), BULK_UPLOAD_LIMIT)

C24_Witness ==
    /\ BULK_UPLOAD_LIMIT = 1
    /\ Len(calls) = 4
    /\ calls[1].op = "create_medias"
    /\ calls[2].op = "create_media_objects"
    /\ calls[3].op = "create_media_objects"
    /\ calls[4].op = "create_medias"
    /\ calls[2].items[1].ref = <<calls[1].items[1].ref, 1>>
    /\ calls[3].items[1].ref = <<calls[1].items[1].ref, 2>>

\* C25: upload() runs to completion: for any pending list, as long as the
\* calls of the service client return, a running upload() ends, either by
\* raising HARIMediaUploadError or by returning; when it returns results it
\* has made exactly ceil(N / BULK_UPLOAD_LIMIT) create_medias calls for the N
\* pending medias, and it never makes more.
C25_UploadTerminates ==
    /\ [](UploadReturnedResults
          => Len(MediaCalls) = Ceil(Len(_medias), BULK_UPLOAD_LIMIT))
    /\ [](Len(MediaCalls) <= Ceil(Len(_medias), BULK_UPLOAD_LIMIT))
    /\ [](pc = "raised" => error \in {"Couldn't find", "contains multiple items"})
    /\ UploadRunning ~> (UploadReturnedResults \/ pc = "raised")

C25_Witness ==
    /\ UploadReturnedResults
    /\ Len(_medias) = 3
    /\ BULK_UPLOAD_LIMIT = 2
    /\ Len(MediaCalls) = 2
    /\ Len(ObjectCalls) = 2

\* C26: upload() leaves the pending list as it is: no step of an upload()
\* call, the one that raises included, changes the medias the uploader holds,
\* their order or their media objects; an item that has a token is submitted
\* with that token; and an upload() that returns results, the second one on
\* the same uploader included, has submitted every pending media and every
\* media object of the list.
C26_UploadKeepsPendingList ==
    [][(UploadRunning \/ uploads' # uploads)
       => /\ _medias' = _medias
          /\ AllMediaObjects' = AllMediaObjects
          /\ Len(calls') > Len(calls)
             => LET c == calls'[Len(calls')]
                IN  \A i \in 1..Len(c.items) :
                        Truthy(TokenOf(ItemOf(c, i)))
                        => c.items[i].bulk_operation_annotatable_id
                               = TokenOf(ItemOf(c, i))
          /\ UploadReturnedResults'
             => /\ ConcatRefs(MediaCalls', Len(MediaCalls')) = _medias
                /\ ConcatRefs(ObjectCalls', Len(ObjectCalls')) = AllMediaObjects]_vars

C26_Witness ==
    /\ uploads = 2
    /\ UploadReturnedResults
    /\ Len(_medias) = 2
    /\ Len(AllMediaObjects) = 1
    /\ ConcatRefs(MediaCalls, Len(MediaCalls)) = _medias
    /\ ConcatRefs(ObjectCalls, Len(ObjectCalls)) = AllMediaObjects
    /\ \A a \in Items : Truthy(TokenOf(a))
    /\ uuidCnt = Cardinality(Items)
    /\ serverCnt = 2 * Cardinality(Items)

\* C27: _merge_bulk_responses with two or more inputs does not modify any of
\* them: after the call every input object has the status, the results and
\* the counts it was passed with, and the object returned is a new one, none
\* of the inputs.
C27_MergeLeavesInputsAlone ==
    (MergeDone /\ Len(mergeArgs) >= 2)
    => /\ \A i \in 1..Len(mergeArgs) :
              /\ mergeObjects[i].status = mergeArgs[i].status
              /\ mergeObjects[i].results = mergeArgs[i].results
              /\ mergeObjects[i].summary = mergeArgs[i].summary
       /\ mergeReturned \in 1..Len(mergeObjects)
       /\ mergeReturned \notin 1..Len(mergeArgs)

C27_Witness ==
    /\ MergeDone
    /\ Len(mergeArgs) = 2
    /\ \A i \in 1..2 : Len(mergeArgs[i].results) = 1
    /\ mergeArgs[1].status # mergeArgs[2].status
    /\ mergeObjects[1] = mergeArgs[1]
    /\ mergeObjects[2] = mergeArgs[2]
    /\ mergeReturned = 3
    /\ mergeObjects[3] = mergeResult
    /\ Len(mergeObjects[3].results) = 2

====
